---- MODULE Spec2Model ----
(***************************************************************************)
(* Model of lib/bookmarks (items, folders, index persistence, the change   *)
(* notification bridge) and of the handlers of lib/configure-folders.      *)
(***************************************************************************)
EXTENDS Integers, Sequences, FiniteSets, TLC

(* ------------------------------ bounds --------------------------------- *)
\* Largest number of child records of the folder whose children are loaded.
MaxChildren == 3
\* Largest number of setIndex calls the sort policy makes after a load.
MaxSetIndex == 1
\* Largest number of save() calls after a load.
MaxSaves == 2
\* Largest number of children removed from the store behind the folder's back.
MaxRemoved == 1
\* Largest number of folders the user created below the root containers.
MaxFolders == 2
\* Largest number of annotation flags set at one time.
MaxAnnotations == 2
\* Largest number of BookmarkManager instances.
MaxManagers == 2
\* Largest number of native events the store delivers.
MaxEvents == 3
\* Largest number of configuration pages open at one time.
MaxPages == 1

VARIABLES
    nodes,       \* store: the records of the folder's children, in position order
    position,    \* store: item id -> persisted position
    removed,     \* store: ids of children removed after they were loaded
    smart,       \* annotations: ids flagged as smart (query-backed) bookmarks
    loaded,      \* whether this.children has been assigned by getChildren()
    children,    \* this.children of the folder: a sequence of segments of items
    rootNode,    \* result.root as getChildren() enumerated it
    moveCalls,   \* the setItemIndex calls made by the last save(), in order
    errors,      \* the console.error lines of the last operation (item ids)
    threw,       \* whether the last operation left by an exception
    lastOp,      \* the last operation that ran ("save again": a save right after a save)
    nSetIndex,   \* setIndex calls since the load
    nSaves,      \* save calls since the load
    parent,      \* store: folder id -> id of its parent folder (0: none)
    livemark,    \* annotations: ids flagged as livemarks (feed-backed folders)
    doNotSort,   \* annotations: ids flagged "do not sort"
    recursive,   \* annotations: ids flagged "recursively excluded"
    ret,         \* the last call on a folder of the tree and what it returned
    observers,   \* BookmarkManager.prototype.observers: the process-wide registry
    storeObservers, \* the observers attached to the bookmark service
    emitted,     \* manager -> the events it emitted, in order
    delivered,   \* manager -> the native events its observer received, in order
    uncaught,    \* the exceptions that left an observer callback
    nListeners,  \* "remove" listeners the configuration pages hold on their manager
    removeCalls, \* invocations of onRemove
    unloaded,    \* whether the unload hook has run
    nEvents      \* native events delivered so far

folderVars == <<nodes, position, removed, smart, loaded, children, rootNode, moveCalls, errors, threw, lastOp, nSetIndex, nSaves>>
treeVars == <<parent, livemark, doNotSort, recursive, ret>>
eventVars == <<observers, storeObservers, emitted, delivered, uncaught, nListeners, removeCalls, unloaded, nEvents>>
vars == <<folderVars, treeVars, eventVars>>

(* --------------------------- JavaScript values ------------------------- *)
\* A JavaScript value: undefined, null, a number or a string.
Undefined == [k |-> "undefined", n |-> 0, s |-> ""]
Null == [k |-> "null", n |-> 0, s |-> ""]
Num(x) == [k |-> "number", n |-> x, s |-> ""]
Str(x) == [k |-> "string", n |-> 0, s |-> x]

\* ToBoolean: undefined, null, 0 and "" are falsy.
Truthy(v) == CASE v.k = "undefined" -> FALSE [] v.k = "null" -> FALSE [] v.k = "number" -> v.n # 0 [] OTHER -> v.s # ""

\* a || b
JsOr(a, b) == IF Truthy(a) THEN a ELSE b

(* ------------------------ store and result constants -------------------- *)
TYPE_BOOKMARK == "TYPE_BOOKMARK"
TYPE_FOLDER == "TYPE_FOLDER"
TYPE_SEPARATOR == "TYPE_SEPARATOR"
RESULT_TYPE_URI == "RESULT_TYPE_URI"
RESULT_TYPE_FOLDER == "RESULT_TYPE_FOLDER"
RESULT_TYPE_SEPARATOR == "RESULT_TYPE_SEPARATOR"
RESULT_TYPE_QUERY == "RESULT_TYPE_QUERY"
\* A result kind createItemFromNode has no case for (a folder shortcut).
RESULT_TYPE_FOLDER_SHORTCUT == "RESULT_TYPE_FOLDER_SHORTCUT"
\* The value of a variable that was declared and never assigned.
NoType == "undefined"

\* The store's root and the three root containers below it.
placesRoot == 1
bookmarksMenuFolder == 2
toolbarFolder == 3
unfiledBookmarksFolder == 4
\* The first id the store gives to an item the user created.
FirstItemId == unfiledBookmarksFolder + 1

(* ------------------------------ annotations ---------------------------- *)
isSmartBookmark(itemID) == itemID \in smart
isLivemark(itemID) == itemID \in livemark

(* --------------------------------- Item -------------------------------- *)
\* An object of a class before its constructor ran: every field undefined.
NewObject(class) == [class |-> class, id |-> 0, index |-> Undefined, oldIndex |-> Undefined, parentID |-> 0, corrupted |-> FALSE, title |-> Undefined, url |-> Undefined, lastVisited |-> Undefined, accessCount |-> Undefined, dateAdded |-> Undefined, lastModified |-> Undefined]

\* Item.setIndex without the fallback to the argument: this.oldIndex = this.index.
Item_setIndex_NoFallback(this, index) == [this EXCEPT !.oldIndex = this.index, !.index = index]

\* Item.setIndex: this.oldIndex = this.index || index; this.index = index.
Item_setIndex(this, index) == [this EXCEPT !.oldIndex = JsOr(this.index, index), !.index = index]

\* Item.initialize
Item_initialize(this, itemID, index, parentID) == [Item_setIndex([this EXCEPT !.id = itemID], index) EXCEPT !.parentID = parentID]

\* The test of Bookmark.initialize with the url left out of it.
HasNullField_NoUrl(title, dateAdded, lastModified, url, lastVisited, accessCount) == title = Null \/ dateAdded = Null \/ lastModified = Null \/ lastVisited = Null \/ accessCount = Null

\* The test of Bookmark.initialize: some required argument === null.
HasNullField(title, dateAdded, lastModified, url, lastVisited, accessCount) == title = Null \/ dateAdded = Null \/ lastModified = Null \/ url = Null \/ lastVisited = Null \/ accessCount = Null

\* Bookmark.initialize (order, description and keyword are read by no
\* operation modelled here and are left out).
Bookmark_initialize(this, itemID, index, parentID, title, dateAdded, lastModified, url, lastVisited, accessCount) ==
    LET flagged == [this EXCEPT !.corrupted = HasNullField(title, dateAdded, lastModified, url, lastVisited, accessCount)]
        item == Item_initialize(flagged, itemID, index, parentID)
    IN [item EXCEPT !.title = JsOr(title, Str("")), !.url = JsOr(url, Str("")), !.lastVisited = JsOr(lastVisited, Num(0)), !.accessCount = JsOr(accessCount, Num(0)), !.dateAdded = JsOr(dateAdded, Num(0)), !.lastModified = JsOr(lastModified, Num(0))]

\* Separator.initialize
Separator_initialize(this, itemID, index, parentID) == Item_initialize(this, itemID, index, parentID)

\* Folder.initialize: url, lastVisited and accessCount are not passed on.
Folder_initialize(this, itemID, index, parentID, title, dateAdded, lastModified) == Bookmark_initialize(this, itemID, index, parentID, title, dateAdded, lastModified, Undefined, Undefined, Undefined)

\* Livemark.initialize
Livemark_initialize(this, itemID, index, parentID, title, dateAdded, lastModified) == Bookmark_initialize(this, itemID, index, parentID, title, dateAdded, lastModified, Undefined, Undefined, Undefined)

\* SmartBookmark.initialize: only the title is passed on.
SmartBookmark_initialize(this, itemID, index, parentID, title) == Bookmark_initialize(this, itemID, index, parentID, title, Undefined, Undefined, Undefined, Undefined, Undefined)

\* The result of createItem when no case of its switch matched.
NoItem == NewObject("undefined")

\* createItem
createItem(type, itemID, index, parentID, title, url, lastVisited, accessCount, dateAdded, lastModified) ==
    CASE type = TYPE_BOOKMARK ->
           IF isSmartBookmark(itemID)
           THEN SmartBookmark_initialize(NewObject("SmartBookmark"), itemID, index, parentID, title)
           ELSE Bookmark_initialize(NewObject("Bookmark"), itemID, index, parentID, title, dateAdded, lastModified, url, lastVisited, accessCount)
      [] type = TYPE_FOLDER ->
           IF isLivemark(itemID)
           THEN Livemark_initialize(NewObject("Livemark"), itemID, index, parentID, title, dateAdded, lastModified)
           ELSE Folder_initialize(NewObject("Folder"), itemID, index, parentID, title, dateAdded, lastModified)
      [] type = TYPE_SEPARATOR -> Separator_initialize(NewObject("Separator"), itemID, index, parentID)
      [] OTHER -> NoItem

\* The switch of createItemFromNode.
NodeItemType(nodeType) ==
    CASE nodeType = RESULT_TYPE_URI -> TYPE_BOOKMARK
      [] nodeType = RESULT_TYPE_FOLDER -> TYPE_FOLDER
      [] nodeType = RESULT_TYPE_SEPARATOR -> TYPE_SEPARATOR
      [] nodeType = RESULT_TYPE_QUERY -> TYPE_BOOKMARK
      [] OTHER -> NoType

\* createItemFromNode
createItemFromNode(node, parentID) == createItem(NodeItemType(node.type), node.itemId, Num(node.bookmarkIndex), parentID, node.title, node.uri, node.time, node.accessCount, node.dateAdded, node.lastModified)

\* item instanceof Separator
IsSeparator(item) == item.class = "Separator"

(* ------------------------- Folder: the children ------------------------ *)
\* The folder whose children are loaded and saved.
thisId == bookmarksMenuFolder

\* The loop of Folder.getChildren over the first i children of the result:
\* a separator opens a segment, any other item joins the last segment, an
\* undefined item is dropped.
RECURSIVE ChildrenLoop(_, _, _)
\* The loop of getChildren without the test item !== undefined.
ChildrenLoop_PushesUndefined(root, i, parentID) ==
    IF i = 0 THEN << <<>> >>
    ELSE LET before == ChildrenLoop(root, i - 1, parentID)
             item == createItemFromNode(root[i], parentID)
             last == Len(before)
         IN IF IsSeparator(item) THEN Append(before, <<>>)
            ELSE [before EXCEPT ![last] = Append(before[last], item)]

ChildrenLoop(root, i, parentID) ==
    IF i = 0 THEN << <<>> >>
    ELSE LET before == ChildrenLoop(root, i - 1, parentID)
             item == createItemFromNode(root[i], parentID)
             last == Len(before)
         IN IF IsSeparator(item) THEN Append(before, <<>>)
            ELSE IF item # NoItem THEN [before EXCEPT ![last] = Append(before[last], item)]
            ELSE before

\* The query of Folder.getChildren: the folder's children still in the store,
\* each with the position the store holds for it.
RECURSIVE QueryLoop(_)
QueryLoop(i) ==
    IF i = 0 THEN <<>>
    ELSE IF nodes[i].itemId \in removed THEN QueryLoop(i - 1)
    ELSE Append(QueryLoop(i - 1), [nodes[i] EXCEPT !.bookmarkIndex = position[nodes[i].itemId]])

executeQuery == QueryLoop(Len(nodes))

\* All items of all segments, in segment order then in-segment order.
RECURSIVE Flatten(_)
Flatten(segments) == IF segments = <<>> THEN <<>> ELSE Head(segments) \o Flatten(Tail(segments))

\* Folder.hasMove
Folder_hasMove(segments) == \E i \in 1..Len(segments) : \E j \in 1..Len(segments[i]) : segments[i][j].index # segments[i][j].oldIndex

\* The number of children the store holds for the folder.
ChildCount == Len(nodes) - Cardinality(removed)

\* bookmarkService.setItemIndex throws for an item that is gone and for an
\* index outside the folder.
StoreRejects(itemID, index) == itemID \in removed \/ index < 0 \/ index >= ChildCount

\* Item.saveIndex with a relative move: the store is given position + index.
Item_saveIndex_Relative(this, st) ==
    LET call == [id |-> this.id, index |-> this.index.n]
    IN IF StoreRejects(this.id, this.index.n)
       THEN [st EXCEPT !.calls = Append(@, call), !.errors = Append(@, this.id)]
       ELSE [st EXCEPT !.calls = Append(@, call), !.position = [@ EXCEPT ![this.id] = @ + this.index.n]]

\* Item.saveIndex without its try/catch: the store's exception leaves it.
Item_saveIndex_NoCatch(this, st) ==
    LET call == [id |-> this.id, index |-> this.index.n]
    IN IF StoreRejects(this.id, this.index.n)
       THEN [st EXCEPT !.calls = Append(@, call), !.threw = TRUE]
       ELSE [st EXCEPT !.calls = Append(@, call), !.position = [@ EXCEPT ![this.id] = this.index.n]]

\* Item.saveIndex applied to the running state st of a save: the store call
\* is made; when it throws, the catch logs the item and st.threw stays FALSE.
Item_saveIndex(this, st) ==
    LET call == [id |-> this.id, index |-> this.index.n]
    IN IF StoreRejects(this.id, this.index.n)
       THEN [st EXCEPT !.calls = Append(@, call), !.errors = Append(@, this.id)]
       ELSE [st EXCEPT !.calls = Append(@, call), !.position = [@ EXCEPT ![this.id] = this.index.n]]

\* The two loops of Folder.save over the first k items; an exception leaving
\* saveIndex would end the loops.
RECURSIVE SaveLoop(_, _, _)
SaveLoop(items, k, st) ==
    IF k = 0 THEN st
    ELSE LET before == SaveLoop(items, k - 1, st)
         IN IF before.threw THEN before ELSE Item_saveIndex(items[k], before)

\* Folder.save
Folder_save(segments, st) == IF Folder_hasMove(segments) THEN SaveLoop(Flatten(segments), Len(Flatten(segments)), st) ELSE st

(* ------------------------- the folder's operations --------------------- *)
\* folder.getChildren()
GetChildren ==
    /\ ~loaded
    /\ rootNode' = executeQuery
    /\ children' = ChildrenLoop(rootNode', Len(rootNode'), thisId)
    /\ loaded' = TRUE
    /\ moveCalls' = <<>>
    /\ errors' = <<>>
    /\ threw' = FALSE
    /\ lastOp' = "getChildren"
    /\ nSetIndex' = 0
    /\ nSaves' = 0
    /\ UNCHANGED <<nodes, position, removed, smart, treeVars, eventVars>>

\* The sort policy: children[i][j].setIndex(n)
SetIndex(i, j, n) ==
    /\ loaded
    /\ nSetIndex < MaxSetIndex
    /\ children' = [children EXCEPT ![i][j] = Item_setIndex(@, Num(n))]
    /\ nSetIndex' = nSetIndex + 1
    /\ lastOp' = "setIndex"
    /\ moveCalls' = <<>>
    /\ errors' = <<>>
    /\ threw' = FALSE
    /\ UNCHANGED <<nodes, position, removed, smart, loaded, rootNode, nSaves, treeVars, eventVars>>

\* folder.save()
Save ==
    /\ loaded
    /\ nSaves < MaxSaves
    /\ LET st == Folder_save(children, [position |-> position, calls |-> <<>>, errors |-> <<>>, threw |-> FALSE])
       IN /\ position' = st.position
          /\ moveCalls' = st.calls
          /\ errors' = st.errors
          /\ threw' = st.threw
    /\ nSaves' = nSaves + 1
    /\ lastOp' = IF lastOp \in {"save", "save again"} THEN "save again" ELSE "save"
    /\ UNCHANGED <<nodes, removed, smart, loaded, children, rootNode, nSetIndex, treeVars, eventVars>>

\* The user removes a child from the store after the load: the store closes
\* the gap by moving the later children up.
RemoveItem(id) ==
    /\ loaded
    /\ id \notin removed
    /\ Cardinality(removed) < MaxRemoved
    /\ removed' = removed \cup {id}
    /\ position' = [x \in DOMAIN position |-> IF x \notin removed /\ position[x] > position[id] THEN position[x] - 1 ELSE position[x]]
    /\ lastOp' = "remove"
    /\ moveCalls' = <<>>
    /\ errors' = <<>>
    /\ threw' = FALSE
    /\ UNCHANGED <<nodes, smart, loaded, children, rootNode, nSetIndex, nSaves, treeVars, eventVars>>

(* --------------------------- the folder tree --------------------------- *)
\* lib/annotations
hasDoNotSortAnnotation(itemID) == itemID \in doNotSort
isRecursivelyExcluded(itemID) == itemID \in recursive

\* bookmarkService.getFolderIdForItem
getFolderIdForItem(itemID) == parent[itemID]

\* The three root containers: menuFolder, toolbarFolder, unsortedFolder.
menuFolder == bookmarksMenuFolder
unsortedFolder == unfiledBookmarksFolder
RootContainers == {menuFolder, toolbarFolder, unsortedFolder}

\* What a call returned, or that it left by an exception.
Returned(v) == [threw |-> FALSE, value |-> v]
Thrown == [threw |-> TRUE, value |-> FALSE]

\* Folder.isRoot
Folder_isRoot(id) == id = placesRoot

\* Folder.hasAncestorExcluded. createItem(TYPE_FOLDER, parentID) yields a
\* Livemark for a feed-backed parent, which has no hasAncestorExcluded
\* method: the call on it is a TypeError.
RECURSIVE Folder_hasAncestorExcluded(_)
Folder_hasAncestorExcluded(id) ==
    IF isRecursivelyExcluded(id) THEN Returned(TRUE)
    ELSE LET parentID == getFolderIdForItem(id)
         IN IF parentID > 0
            THEN IF isLivemark(parentID) THEN Thrown ELSE Folder_hasAncestorExcluded(parentID)
            ELSE Returned(FALSE)

\* Folder.canBeSorted
Folder_canBeSorted(id) ==
    IF hasDoNotSortAnnotation(id) THEN Returned(FALSE)
    ELSE LET excluded == Folder_hasAncestorExcluded(id)
         IN IF excluded.threw THEN Thrown
            ELSE IF excluded.value THEN Returned(FALSE)
            ELSE Returned(~Folder_isRoot(id))

\* The query of getFolders: the child folders of a folder, in position order.
RECURSIVE SortedSeq(_)
SortedSeq(S) == IF S = {} THEN <<>> ELSE LET m == CHOOSE x \in S : \A y \in S : x <= y IN <<m>> \o SortedSeq(S \ {m})
ChildFolders(id) == SortedSeq({f \in DOMAIN parent : parent[f] = id})

\* Folder.getFolders: the ids of the folders it returns, in order.
RECURSIVE Folder_getFolders(_)
RECURSIVE FoldersLoop(_, _)
\* The loop of getFolders entering the subtree of an excluded folder.
FoldersLoop_EntersExcluded(nodeIds, i) ==
    IF i = 0 THEN <<>>
    ELSE LET folders == FoldersLoop(nodeIds, i - 1)
             itemId == nodeIds[i]
         IN IF ~isLivemark(itemId)
            THEN (IF ~isRecursivelyExcluded(itemId) THEN folders \o <<itemId>> ELSE folders) \o Folder_getFolders(itemId)
            ELSE folders

FoldersLoop(nodeIds, i) ==
    IF i = 0 THEN <<>>
    ELSE LET folders == FoldersLoop(nodeIds, i - 1)
             itemId == nodeIds[i]
         IN IF ~isRecursivelyExcluded(itemId)
            THEN IF ~isLivemark(itemId) THEN (folders \o <<itemId>>) \o Folder_getFolders(itemId) ELSE folders
            ELSE folders
Folder_getFolders(id) == FoldersLoop(ChildFolders(id), Len(ChildFolders(id)))

\* The folders the configuration page lists (getRootFolders and
\* getChildrenFolders), whose checkboxes the user can change.
ListedFolders == RootContainers \cup {f \in DOMAIN parent : f >= FirstItemId /\ ~isLivemark(f)}

AnnotationCount == Cardinality(doNotSort) + Cardinality(recursive)
NoCall == [op |-> "none", id |-> 0, threw |-> FALSE, value |-> FALSE, folders |-> <<>>]

\* worker.port.on("sort-checkbox-change")
SortCheckboxChange(folderID, activated) ==
    /\ folderID \in ListedFolders
    /\ activated \/ folderID \in doNotSort \/ AnnotationCount < MaxAnnotations
    /\ doNotSort' = IF activated THEN doNotSort \ {folderID} ELSE doNotSort \cup {folderID}
    /\ ret' = NoCall
    /\ UNCHANGED <<parent, livemark, recursive, folderVars, eventVars>>

\* worker.port.on("recursive-checkbox-change")
RecursiveCheckboxChange(folderID, activated) ==
    /\ folderID \in ListedFolders
    /\ ~activated \/ folderID \in recursive \/ AnnotationCount < MaxAnnotations
    /\ recursive' = IF activated THEN recursive \cup {folderID} ELSE recursive \ {folderID}
    /\ ret' = NoCall
    /\ UNCHANGED <<parent, livemark, doNotSort, folderVars, eventVars>>

\* folder.canBeSorted() on the Folder of id
CanBeSorted(id) ==
    /\ id \notin livemark
    /\ ret' = [op |-> "canBeSorted", id |-> id, threw |-> Folder_canBeSorted(id).threw, value |-> Folder_canBeSorted(id).value, folders |-> <<>>]
    /\ UNCHANGED <<parent, livemark, doNotSort, recursive, folderVars, eventVars>>

\* folder.getFolders() on the Folder of id
GetFolders(id) ==
    /\ id \notin livemark
    /\ ret' = [op |-> "getFolders", id |-> id, threw |-> FALSE, value |-> FALSE, folders |-> Folder_getFolders(id)]
    /\ UNCHANGED <<parent, livemark, doNotSort, recursive, folderVars, eventVars>>

(* -------------------- the change notification bridge ------------------- *)
NativeEvents == {"onItemAdded", "onItemChanged", "onItemMoved", "onItemRemoved", "onItemVisited"}

\* emit(self, type): the event is recorded with its arguments (none), and
\* each onRemove listener of the manager of lib/configure-folders is called
\* for a "remove" event.
configureManager == 1
emit(st, self, type) == [st EXCEPT !.emitted[self] = Append(@, [type |-> type, args |-> <<>>]), !.removeCalls = IF type = "remove" /\ self = configureManager THEN @ + nListeners ELSE @]

\* The callbacks of the observer createObserver builds for manager self.
\* onItemRemoved reads `item`, which no scope binds: a ReferenceError.
onItemAdded(st, self) == emit(st, self, "changed")
onItemChanged(st, self) == emit(st, self, "changed")
onItemMoved(st, self) == emit(st, self, "changed")
onItemRemoved_EmitsChanged(st, self) == emit(st, self, "changed")
onItemRemoved(st, self) == [st EXCEPT !.uncaught = Append(@, "ReferenceError")]
onItemVisited(st, self) == emit(st, self, "changed")

Notify(st, self, kind) ==
    LET got == [st EXCEPT !.delivered[self] = Append(@, kind)]
    IN CASE kind = "onItemAdded" -> onItemAdded(got, self)
         [] kind = "onItemChanged" -> onItemChanged(got, self)
         [] kind = "onItemMoved" -> onItemMoved(got, self)
         [] kind = "onItemRemoved" -> onItemRemoved(got, self)
         [] OTHER -> onItemVisited(got, self)

\* The store calls every attached observer; an exception leaving one is
\* reported and the next observer is still called.
RECURSIVE NotifyAll(_, _, _)
NotifyAll(st, k, kind) == IF k = 0 THEN st ELSE Notify(NotifyAll(st, k - 1, kind), storeObservers[k], kind)

\* new BookmarkManager(options): createObserver
NewBookmarkManager ==
    /\ ~unloaded
    /\ Len(observers) < MaxManagers
    /\ LET self == Len(observers) + 1
       IN /\ observers' = Append(observers, self)
          /\ storeObservers' = Append(storeObservers, self)
          /\ emitted' = Append(emitted, <<>>)
          /\ delivered' = Append(delivered, <<>>)
    /\ UNCHANGED <<uncaught, nListeners, removeCalls, unloaded, nEvents, folderVars, treeVars>>

\* The store reports a change of kind to its observers.
StoreEvent(kind) ==
    /\ nEvents < MaxEvents
    /\ LET st == NotifyAll([emitted |-> emitted, delivered |-> delivered, uncaught |-> uncaught, removeCalls |-> removeCalls], Len(storeObservers), kind)
       IN /\ emitted' = st.emitted
          /\ delivered' = st.delivered
          /\ uncaught' = st.uncaught
          /\ removeCalls' = st.removeCalls
    /\ nEvents' = nEvents + 1
    /\ UNCHANGED <<observers, storeObservers, nListeners, unloaded, folderVars, treeVars>>

\* The function showConfigureFoldersToExclude returns:
\* bookmarkManager.on("remove", onRemove), then the page is opened.
ShowConfigureFolders ==
    /\ ~unloaded
    /\ Len(observers) >= configureManager
    /\ nListeners < MaxPages
    /\ nListeners' = nListeners + 1
    /\ UNCHANGED <<observers, storeObservers, emitted, delivered, uncaught, removeCalls, unloaded, nEvents, folderVars, treeVars>>

\* onClose of the page: bookmarkManager.removeListener("remove", onRemove)
CloseConfigureFolders ==
    /\ nListeners > 0
    /\ nListeners' = nListeners - 1
    /\ UNCHANGED <<observers, storeObservers, emitted, delivered, uncaught, removeCalls, unloaded, nEvents, folderVars, treeVars>>

\* The unload hook removing the first observer of the registry alone.
Unload_FirstOnly ==
    /\ ~unloaded
    /\ storeObservers' = SelectSeq(storeObservers, LAMBDA o : Len(observers) = 0 \/ observers[1] # o)
    /\ unloaded' = TRUE
    /\ UNCHANGED <<observers, emitted, delivered, uncaught, nListeners, removeCalls, nEvents, folderVars, treeVars>>

\* The unload hook: every observer of the registry is removed from the store.
Unload ==
    /\ ~unloaded
    /\ storeObservers' = SelectSeq(storeObservers, LAMBDA o : \A k \in 1..Len(observers) : observers[k] # o)
    /\ unloaded' = TRUE
    /\ UNCHANGED <<observers, emitted, delivered, uncaught, nListeners, removeCalls, nEvents, folderVars, treeVars>>

(* ---------------------------- initial stores --------------------------- *)
\* Which required fields a record may lack: none, one, or all of them.
RequiredFields == {"title", "uri", "time", "accessCount", "dateAdded", "lastModified"}
MissingCases == {{}} \cup {{f} : f \in RequiredFields} \cup {RequiredFields}

\* The kinds of child record: result type, annotation, absent fields.
ChildKinds ==
    [type : {RESULT_TYPE_URI}, flag : {FALSE}, missing : MissingCases]
    \cup [type : {RESULT_TYPE_URI}, flag : {TRUE}, missing : {{}, {"title"}, {"uri"}}]
    \cup [type : {RESULT_TYPE_QUERY}, flag : BOOLEAN, missing : {{}, {"uri"}}]
    \cup [type : {RESULT_TYPE_FOLDER}, flag : {FALSE}, missing : {{}, {"title"}}]
    \cup [type : {RESULT_TYPE_FOLDER}, flag : {TRUE}, missing : {{}}]
    \cup [type : {RESULT_TYPE_SEPARATOR, RESULT_TYPE_FOLDER_SHORTCUT}, flag : {FALSE}, missing : {{}}]

\* The kinds of child record the sort policy reorders in the save model.
PlainKinds == [type : {RESULT_TYPE_URI, RESULT_TYPE_SEPARATOR}, flag : {FALSE}, missing : {{}}]

\* The store's record of the i-th child of the folder, of kind kd. A field
\* the store holds no value for is reported as null.
NodeOf(i, kd) ==
    [itemId |-> FirstItemId + i - 1, type |-> kd.type, bookmarkIndex |-> i - 1,
     title |-> IF "title" \in kd.missing THEN Null ELSE Str("title"),
     uri |-> IF "uri" \in kd.missing THEN Null ELSE Str("uri"),
     time |-> IF "time" \in kd.missing THEN Null ELSE Num(1),
     accessCount |-> IF "accessCount" \in kd.missing THEN Null ELSE Num(1),
     dateAdded |-> IF "dateAdded" \in kd.missing THEN Null ELSE Num(1),
     lastModified |-> IF "lastModified" \in kd.missing THEN Null ELSE Num(1)]

\* The parents of the store's root and of the three root containers.
RootParents == [f \in {placesRoot} \cup RootContainers |-> IF f = placesRoot THEN 0 ELSE placesRoot]

InitStore(kinds) ==
    \E n \in 0..MaxChildren : \E kd \in [1..n -> kinds] :
        /\ nodes = [i \in 1..n |-> NodeOf(i, kd[i])]
        /\ position = [id \in {FirstItemId + i - 1 : i \in 1..n} |-> id - FirstItemId]
        /\ smart = {FirstItemId + i - 1 : i \in {x \in 1..n : kd[x].flag /\ kd[x].type \in {RESULT_TYPE_URI, RESULT_TYPE_QUERY}}}
        /\ livemark = {FirstItemId + i - 1 : i \in {x \in 1..n : kd[x].flag /\ kd[x].type = RESULT_TYPE_FOLDER}}

\* The folder before getChildren() was called on it.
InitFolder ==
    /\ removed = {}
    /\ loaded = FALSE
    /\ children = <<>>
    /\ rootNode = <<>>
    /\ moveCalls = <<>>
    /\ errors = <<>>
    /\ threw = FALSE
    /\ lastOp = "none"
    /\ nSetIndex = 0
    /\ nSaves = 0

\* A store with no child in the folder.
NoStore ==
    /\ nodes = <<>>
    /\ position = <<>>
    /\ smart = {}

\* A tree of the root containers alone, with no annotation.
NoTree ==
    /\ parent = RootParents
    /\ doNotSort = {}
    /\ recursive = {}
    /\ ret = NoCall

\* The process before any BookmarkManager was created.
InitEvents ==
    /\ observers = <<>>
    /\ storeObservers = <<>>
    /\ emitted = <<>>
    /\ delivered = <<>>
    /\ uncaught = <<>>
    /\ nListeners = 0
    /\ removeCalls = 0
    /\ unloaded = FALSE
    /\ nEvents = 0

\* The user's folders: each below the bookmarks menu or below an earlier
\* folder; any of them may be a livemark.
UserFolders(n) == {FirstItemId + i - 1 : i \in 1..n}
InitTree ==
    \E n \in 0..MaxFolders : \E up \in [UserFolders(n) -> {menuFolder} \cup UserFolders(n)] : \E feeds \in SUBSET UserFolders(n) :
        /\ \A f \in UserFolders(n) : up[f] < f
        /\ parent = [f \in DOMAIN RootParents \cup UserFolders(n) |-> IF f \in UserFolders(n) THEN up[f] ELSE RootParents[f]]
        /\ livemark = feeds
        /\ doNotSort = {}
        /\ recursive = {}
        /\ ret = NoCall

(* ----------------------------- specifications -------------------------- *)
\* Loading the children of a folder of any content.
InitChildren == InitStore(ChildKinds) /\ InitFolder /\ NoTree /\ InitEvents
NextChildren == GetChildren
SpecChildren == InitChildren /\ [][NextChildren]_vars

\* Load, reorder, save, with removals behind the folder's back.
InitSave == InitStore(PlainKinds) /\ InitFolder /\ NoTree /\ InitEvents
NextSave ==
    \/ GetChildren
    \/ \E i \in 1..Len(children) : \E j \in 1..Len(children[i]) : \E n \in 0..Len(nodes) : SetIndex(i, j, n)
    \/ Save
    \/ \E id \in DOMAIN position : RemoveItem(id)
SpecSave == InitSave /\ [][NextSave]_vars

\* The folder tree, its annotations, and the calls on its folders.
InitTreeSpec == InitTree /\ NoStore /\ InitFolder /\ InitEvents
NextTree ==
    \/ \E f \in DOMAIN parent : \E activated \in BOOLEAN : SortCheckboxChange(f, activated)
    \/ \E f \in DOMAIN parent : \E activated \in BOOLEAN : RecursiveCheckboxChange(f, activated)
    \/ \E f \in DOMAIN parent : CanBeSorted(f)
    \/ \E f \in DOMAIN parent : GetFolders(f)
SpecTree == InitTreeSpec /\ [][NextTree]_vars

\* The managers, the store's events and the unload hook.
InitEventsSpec == InitEvents /\ NoStore /\ InitFolder /\ NoTree /\ livemark = {}
NextEvents ==
    \/ NewBookmarkManager
    \/ \E kind \in NativeEvents : StoreEvent(kind)
    \/ ShowConfigureFolders
    \/ CloseConfigureFolders
    \/ Unload
SpecEvents == InitEventsSpec /\ [][NextEvents]_vars

(* -------------------------------- claims -------------------------------- *)
IsSave == lastOp \in {"save", "save again"}

\* The index the store reported for item id when the children were loaded.
LoadIndex(id) == rootNode[CHOOSE k \in 1..Len(rootNode) : rootNode[k].itemId = id].bookmarkIndex

\* The setItemIndex calls a save of every item makes: each item's id with
\* its current index, in segment order then in-segment order.
AllItemCalls == [k \in 1..Len(Flatten(children)) |-> [id |-> Flatten(children)[k].id, index |-> Flatten(children)[k].index.n]]

\* C1: whatever setIndex calls followed its construction, every item's
\* oldIndex is the index the store reported when it was constructed.
C1_OldIndexIsLoadIndex == loaded => \A k \in 1..Len(Flatten(children)) : Flatten(children)[k].oldIndex = Num(LoadIndex(Flatten(children)[k].id))

\* C2: canBeSorted() returns false for the bookmarks menu, the toolbar and
\* the unfiled folder, whatever the annotations.
C2_RootContainersNotSortable == (ret.op = "canBeSorted" /\ ret.id \in RootContainers) => (~ret.threw /\ ~ret.value)

\* C3: a save() that follows setIndex calls leaving some item at an index
\* other than the one it was loaded with calls the store's move for every
\* item of every segment, with its current index, in order.
C3_SaveMovesEveryItem == (IsSave /\ \E k \in 1..Len(Flatten(children)) : Flatten(children)[k].index # Num(LoadIndex(Flatten(children)[k].id))) => moveCalls = AllItemCalls

\* C4: as long as no setIndex call followed getChildren(), hasMove() is
\* false and a save() makes no store move call.
C4_NoMoveAfterLoad == (loaded /\ nSetIndex = 0) => (~Folder_hasMove(children) /\ (IsSave => moveCalls = <<>>))
C4_Witness == IsSave /\ nSetIndex = 0 /\ Len(Flatten(children)) >= 2 /\ Flatten(children)[1].index = Num(0)

\* C5: a save() right after a save() leaves every persisted position as the
\* first save() left it.
C5_SaveIdempotent == [][(IsSave /\ lastOp' = "save again") => position' = position]_vars
C5_Witness == lastOp = "save again" /\ \E k \in 1..Len(moveCalls) : position[moveCalls[k].id] = moveCalls[k].index /\ moveCalls[k].index # LoadIndex(moveCalls[k].id)

\* The folders on the way from f up to the start folder: f and its ancestors
\* strictly below start (up to the store's root when start is no ancestor).
RECURSIVE PathBelow(_, _)
PathBelow(f, start) == IF f = start \/ f = 0 THEN {} ELSE {f} \cup PathBelow(parent[f], start)

\* C6 as stated: getFolders() returns no folder flagged recursively excluded
\* and none with a flagged ancestor, no livemark and none with a livemark
\* ancestor.
C6_NoExcludedAtAll == ret.op = "getFolders" => \A k \in 1..Len(ret.folders) : PathBelow(ret.folders[k], 0) \cap (recursive \cup livemark) = {}

\* C6 as amended: getFolders() returns no folder that is flagged recursively
\* excluded or a livemark, and none that lies below such a folder which is
\* itself below the folder getFolders() was called on.
C6_NoExcludedBelowStart == ret.op = "getFolders" => \A k \in 1..Len(ret.folders) : PathBelow(ret.folders[k], ret.id) \cap (recursive \cup livemark) = {}
C6_Witness == ret.op = "getFolders" /\ ret.folders # <<>> /\ \E f \in DOMAIN parent : f \notin recursive /\ parent[f] \in recursive /\ ret.id \in PathBelow(parent[f], 0) \ {parent[f]}

\* What getChildren() is to return for the k-th segment: the ids of the
\* children of a recognized type other than separator that follow exactly
\* k - 1 separators, in store order.
IsSeparatorNode(node) == node.type = RESULT_TYPE_SEPARATOR
IsRecognizedNode(node) == node.type \in {RESULT_TYPE_URI, RESULT_TYPE_FOLDER, RESULT_TYPE_SEPARATOR, RESULT_TYPE_QUERY}
SeparatorsBefore(i) == Cardinality({x \in 1..(i - 1) : IsSeparatorNode(rootNode[x])})
SeparatorCount == SeparatorsBefore(Len(rootNode) + 1)
SegmentIds(k) == LET idx == SortedSeq({i \in 1..Len(rootNode) : IsRecognizedNode(rootNode[i]) /\ ~IsSeparatorNode(rootNode[i]) /\ SeparatorsBefore(i) = k - 1}) IN [j \in 1..Len(idx) |-> rootNode[idx[j]].itemId]

\* C7: getChildren() yields 1 + (number of separators) segments, the k-th
\* holding, in store order, the children of a recognized type that follow
\* k - 1 separators; no separator is in a segment.
C7_Segments == loaded => (/\ Len(children) = 1 + SeparatorCount
                          /\ \A k \in 1..Len(children) : [j \in 1..Len(children[k]) |-> children[k][j].id] = SegmentIds(k)
                          /\ \A k \in 1..Len(children) : \A j \in 1..Len(children[k]) : ~IsSeparator(children[k][j]))
C7_Witness == loaded /\ Len(children) = 2 /\ Len(rootNode) = 3 /\ children[2] # <<>> /\ \E i \in 1..Len(rootNode) : ~IsRecognizedNode(rootNode[i])

\* The item getChildren() built for the child of id, and whether it built one.
HasItem(id) == \E k \in 1..Len(Flatten(children)) : Flatten(children)[k].id = id
ItemOf(id) == Flatten(children)[CHOOSE k \in 1..Len(Flatten(children)) : Flatten(children)[k].id = id]
IsBookmarkNode(node) == node.type \in {RESULT_TYPE_URI, RESULT_TYPE_QUERY}
LacksField(node) == Null \in {node.title, node.uri, node.time, node.accessCount, node.dateAdded, node.lastModified}
DefaultsFilled(node, item) ==
    /\ item.title = (IF node.title = Null THEN Str("") ELSE node.title)
    /\ item.url = (IF node.uri = Null THEN Str("") ELSE node.uri)
    /\ item.lastVisited = (IF node.time = Null THEN Num(0) ELSE node.time)
    /\ item.accessCount = (IF node.accessCount = Null THEN Num(0) ELSE node.accessCount)
    /\ item.dateAdded = (IF node.dateAdded = Null THEN Num(0) ELSE node.dateAdded)
    /\ item.lastModified = (IF node.lastModified = Null THEN Num(0) ELSE node.lastModified)
EveryChildReturned == \A i \in 1..Len(rootNode) : (IsRecognizedNode(rootNode[i]) /\ ~IsSeparatorNode(rootNode[i])) => HasItem(rootNode[i].itemId)

\* C8 as stated: every record of bookmark type that lacks a required field
\* yields a Bookmark (of any subclass) flagged corrupted, with the absent
\* fields defaulted, and getChildren() returns every other child too.
C8_EveryBookmarkRecordFlagged == loaded => (EveryChildReturned /\ \A i \in 1..Len(rootNode) : (IsBookmarkNode(rootNode[i]) /\ LacksField(rootNode[i])) => (ItemOf(rootNode[i].itemId).corrupted /\ DefaultsFilled(rootNode[i], ItemOf(rootNode[i].itemId))))

\* C8 as amended: every record of bookmark type that is not flagged as a smart
\* bookmark and lacks a required field yields a Bookmark flagged corrupted,
\* with the absent fields defaulted, and getChildren() returns every other
\* child too.
C8_PlainBookmarkRecordFlagged == loaded => (EveryChildReturned /\ \A i \in 1..Len(rootNode) : (IsBookmarkNode(rootNode[i]) /\ ~isSmartBookmark(rootNode[i].itemId) /\ LacksField(rootNode[i])) => (ItemOf(rootNode[i].itemId).corrupted /\ ItemOf(rootNode[i].itemId).class = "Bookmark" /\ DefaultsFilled(rootNode[i], ItemOf(rootNode[i].itemId))))
C8_Witness == loaded /\ Len(rootNode) = 3 /\ rootNode[2].type = RESULT_TYPE_URI /\ rootNode[2].uri = Null /\ rootNode[2].title # Null /\ ItemOf(rootNode[2].itemId).corrupted /\ ItemOf(rootNode[2].itemId).url = Str("") /\ HasItem(rootNode[1].itemId) /\ HasItem(rootNode[3].itemId)

\* C9: a save() that finds a move returns normally whatever items the store
\* rejects: every item is handed to the store with its index, in order, each
\* rejection is logged, and every item the store accepts is at its index.
C9_SaveIsBestEffort == (IsSave /\ Folder_hasMove(children)) => (/\ ~threw
                                                                 /\ moveCalls = AllItemCalls
                                                                 /\ errors = SelectSeq([k \in 1..Len(moveCalls) |-> moveCalls[k].id], LAMBDA id : StoreRejects(id, ItemOf(id).index.n))
                                                                 /\ \A k \in 1..Len(moveCalls) : ~StoreRejects(moveCalls[k].id, moveCalls[k].index) => position[moveCalls[k].id] = moveCalls[k].index)
C9_Witness == IsSave /\ Len(moveCalls) = 3 /\ errors = <<moveCalls[2].id>> /\ position[moveCalls[3].id] = moveCalls[3].index /\ moveCalls[3].index # LoadIndex(moveCalls[3].id)

\* What a manager is to emit for the native events its observer received:
\* one "changed" without arguments for each event other than a removal.
Changed == [type |-> "changed", args |-> <<>>]
ExpectedEvents(m) == [k \in 1..Len(SelectSeq(delivered[m], LAMBDA kind : kind # "onItemRemoved")) |-> Changed]

\* C10: every manager has emitted one argument-free "changed" per added,
\* changed, moved and visited event it received and nothing for a removal,
\* and no "remove" listener was ever called.
C10_EventsNormalized == (\A m \in 1..Len(emitted) : emitted[m] = ExpectedEvents(m)) /\ removeCalls = 0
C10_Witness == nListeners > 0 /\ \E m \in 1..Len(delivered) : Len(delivered[m]) = 3 /\ delivered[m][2] = "onItemRemoved" /\ delivered[m][3] # "onItemRemoved" /\ Len(emitted[m]) = 2

\* What canBeSorted() is to return for folder id: it is not flagged do-not-sort,
\* neither it nor an ancestor up to the store's root is flagged recursively
\* excluded, and it is not the store's root.
SortableByRule(id) == id \notin doNotSort /\ PathBelow(id, 0) \cap recursive = {} /\ id # placesRoot

\* C11: canBeSorted() returns, and returns true exactly for a folder that is
\* not flagged do-not-sort, has no recursively excluded folder among itself
\* and its ancestors, and is not the store's root.
C11_CanBeSortedRule == ret.op = "canBeSorted" => (~ret.threw /\ ret.value = SortableByRule(ret.id))

\* The walk of hasAncestorExcluded from folder id meets a livemark parent
\* before it meets a recursively excluded folder.
RECURSIVE WalkMeetsLivemark(_)
WalkMeetsLivemark(id) == id \notin recursive /\ parent[id] > 0 /\ (parent[id] \in livemark \/ WalkMeetsLivemark(parent[id]))

\* C11 away from livemarks: the rule holds for every call whose walk meets no
\* livemark parent, and every other call that walks leaves by an exception.
C11_RuleOffLivemarks == ret.op = "canBeSorted" => IF ret.id \notin doNotSort /\ WalkMeetsLivemark(ret.id) THEN ret.threw ELSE (~ret.threw /\ ret.value = SortableByRule(ret.id))

\* How many times observer o occurs in the sequence s.
Occurrences(s, o) == Cardinality({k \in 1..Len(s) : s[k] = o})

\* C12: every manager created so far has exactly one observer in the registry
\* and, until the unload hook runs, exactly one attached to the store; the
\* registry and the store hold no other observer; once the unload hook has
\* run, no observer is attached to the store.
C12_ObserversRegisteredAndDetached ==
    /\ \A m \in 1..Len(emitted) : Occurrences(observers, m) = 1 /\ Occurrences(storeObservers, m) = (IF unloaded THEN 0 ELSE 1)
    /\ Len(observers) = Len(emitted)
    /\ Len(storeObservers) = (IF unloaded THEN 0 ELSE Len(emitted))
C12_Witness == unloaded /\ Len(emitted) = 2 /\ Len(observers) = 2 /\ emitted[1] # <<>> /\ emitted[2] # <<>> /\ Len(emitted[1]) > Len(emitted[2])

====
